---- MODULE Spec2Model ----
(***************************************************************************)
(* A model of gitignore-go: pattern.Parse (internal/pattern), which turns  *)
(* the lines of a .gitignore source into compiled patterns, and the        *)
(* constructors New / NewFromLines and File.Match of package gitignore.    *)
(*                                                                         *)
(* Text is a sequence of one-character strings.  A compiled regular        *)
(* expression is the syntax tree regexp.Compile builds from the expression *)
(* text; MatchString evaluates it over a path.                             *)
(***************************************************************************)
EXTENDS Naturals, Sequences, FiniteSets, TLC

(***************************************************************************)
(* Package strings.                                                        *)
(***************************************************************************)
HasPrefix(s, prefix) ==
    Len(s) >= Len(prefix) /\ SubSeq(s, 1, Len(prefix)) = prefix

HasSuffix(s, suffix) ==
    Len(s) >= Len(suffix) /\ SubSeq(s, Len(s) - Len(suffix) + 1, Len(s)) = suffix

\* strings.TrimRight(s, c) for a one-character cutset: the text up to the
\* last character that is not c.
TrimRight(s, c) ==
    IF \A i \in 1 .. Len(s) : s[i] = c THEN <<>>
    ELSE SubSeq(s, 1, CHOOSE i \in 1 .. Len(s) :
                          s[i] # c /\ \A j \in (i + 1) .. Len(s) : s[j] = c)

\* strings.TrimLeft(s, c): the text from the first character that is not c.
TrimLeft(s, c) ==
    IF \A i \in 1 .. Len(s) : s[i] = c THEN <<>>
    ELSE SubSeq(s, CHOOSE i \in 1 .. Len(s) :
                       s[i] # c /\ \A j \in 1 .. (i - 1) : s[j] = c, Len(s))

Trim(s, c) == TrimRight(TrimLeft(s, c), c)

\* strings.ReplaceAll, and regexp.ReplaceAllString for an expression that is
\* one literal text: the leftmost occurrences that do not overlap are
\* replaced.  None of the replacement texts of Parse holds a "$" followed by
\* a name, so ReplaceAllString inserts them unchanged.
\* The one element of a singleton.  { F(x) : x \in {v} } computes v once
\* and hands its value to F.
The(S) == CHOOSE x \in S : TRUE

\* Is there an occurrence of old in s at position i.
OccursAt(s, old, i) ==
    i + Len(old) - 1 <= Len(s) /\ SubSeq(s, i, i + Len(old) - 1) = old

\* The first occurrence of old in s at or after position i, 0 when there is
\* none.
NextOccurrence(s, old, i) ==
    IF \E j \in i .. Len(s) : OccursAt(s, old, j)
    THEN CHOOSE j \in i .. Len(s) :
             OccursAt(s, old, j) /\ \A k \in i .. (j - 1) : ~OccursAt(s, old, k)
    ELSE 0

\* s from position i on, with the occurrences of old replaced; at is the
\* next occurrence.
RECURSIVE ReplaceFrom(_, _, _, _)
ReplaceNext(s, old, new, i, at) ==
    IF at = 0 THEN SubSeq(s, i, Len(s))
    ELSE SubSeq(s, i, at - 1) \o new \o ReplaceFrom(s, old, new, at + Len(old))

ReplaceFrom(s, old, new, i) ==
    The({ ReplaceNext(s, old, new, i, at) : at \in { NextOccurrence(s, old, i) } })

ReplaceAll(s, old, new) == The({ ReplaceFrom(text, old, new, 1) : text \in {s} })

\* xstrings.JoinWithSeparator(sep, elems...)
RECURSIVE JoinWithSeparator(_, _)
JoinWithSeparator(sep, elems) ==
    IF Len(elems) = 0 THEN <<>>
    ELSE IF Len(elems) = 1 THEN elems[1]
    ELSE elems[1] \o sep \o JoinWithSeparator(sep, Tail(elems))

(***************************************************************************)
(* Package regexp/syntax: the expression syntax Parse can produce.         *)
(***************************************************************************)
Ascii ==
    << " ", "!", "\"", "#", "$", "%", "&", "'", "(", ")", "*", "+", ",", "-", ".", "/",
       "0", "1", "2", "3", "4", "5", "6", "7", "8", "9", ":", ";", "<", "=", ">", "?",
       "@", "A", "B", "C", "D", "E", "F", "G", "H", "I", "J", "K", "L", "M", "N", "O",
       "P", "Q", "R", "S", "T", "U", "V", "W", "X", "Y", "Z", "[", "\\", "]", "^", "_",
       "<grave>", "a", "b", "c", "d", "e", "f", "g", "h", "i", "j", "k", "l", "m", "n", "o",
       "p", "q", "r", "s", "t", "u", "v", "w", "x", "y", "z", "{", "|", "}", "~" >>

\* Position of a printable character in the ASCII order (control characters
\* stand before all of them).  The grave accent, which a TLA+ string cannot
\* hold, is written "<grave>".
Code(c) ==
    IF \E i \in DOMAIN Ascii : Ascii[i] = c
    THEN CHOOSE i \in DOMAIN Ascii : Ascii[i] = c
    ELSE 0

Letters ==
    { "a", "b", "c", "d", "e", "f", "g", "h", "i", "j", "k", "l", "m",
      "n", "o", "p", "q", "r", "s", "t", "u", "v", "w", "x", "y", "z",
      "A", "B", "C", "D", "E", "F", "G", "H", "I", "J", "K", "L", "M",
      "N", "O", "P", "Q", "R", "S", "T", "U", "V", "W", "X", "Y", "Z" }

Digits == { "0", "1", "2", "3", "4", "5", "6", "7", "8", "9" }

\* The character an escape \c stands for.  Punctuation stands for itself,
\* "\f", "\n" and "\r" for the control characters; every other letter that
\* is no escape of regexp/syntax is ErrInvalidEscape ("" here).  The escapes
\* that are classes, assertions or numbers (\b \d \s \w \x \z \p \Q, digits,
\* and \a \t \v whose characters no text of the model holds) are outside the
\* model: no input of the model writes them.
EscapedChar(c) ==
    IF c \notin Letters \cup Digits THEN c
    ELSE IF c = "f" THEN "\f"
    ELSE IF c = "n" THEN "\n"
    ELSE IF c = "r" THEN "\r"
    ELSE ""

Fail(i) == [ok |-> FALSE, re |-> [op |-> "empty"], pos |-> i]
Done(r, i) == [ok |-> TRUE, re |-> r, pos |-> i]

\* parseClass: e[i] = "[".  Items are single characters, escapes and ranges
\* lo-hi; "]" is literal as the first item; a missing "]" is
\* ErrMissingBracket and a range with hi < lo is ErrInvalidCharRange.
RECURSIVE ParseClassItems(_, _, _, _, _)

\* The characters from lo to hi.
Range(lo, hi) ==
    {lo, hi} \cup { Ascii[n] : n \in { m \in DOMAIN Ascii : Code(lo) < m /\ m < Code(hi) } }

\* The class item at e[i]: its first character lo (an escape or a plain
\* character) ends before e[j].
ClassItem(e, i, neg, set, lo, j) ==
    IF lo = "" THEN Fail(i)
    ELSE IF ~(j + 1 <= Len(e) /\ e[j] = "-" /\ e[j + 1] # "]")
    THEN ParseClassItems(e, j, FALSE, neg, set \cup {lo})
    ELSE IF e[j + 1] = "\\"
    THEN IF j + 2 > Len(e) \/ EscapedChar(e[j + 2]) = ""
            \/ Code(EscapedChar(e[j + 2])) < Code(lo)
         THEN Fail(i)
         ELSE ParseClassItems(e, j + 3, FALSE, neg, set \cup Range(lo, EscapedChar(e[j + 2])))
    ELSE IF Code(e[j + 1]) < Code(lo) THEN Fail(i)
         ELSE ParseClassItems(e, j + 2, FALSE, neg, set \cup Range(lo, e[j + 1]))

ParseClassItems(e, i, first, neg, set) ==
    IF i > Len(e) THEN Fail(i)
    ELSE IF e[i] = "]" /\ ~first
    THEN Done([op |-> "class", neg |-> neg, set |-> set], i + 1)
    ELSE IF e[i] = "\\"
    THEN ClassItem(e, i, neg, set,
                   IF i + 1 > Len(e) THEN "" ELSE EscapedChar(e[i + 1]), i + 2)
    ELSE ClassItem(e, i, neg, set, e[i], i + 1)

\* Is e[j] escaped: the backslashes in front of it, from position lo on,
\* are odd in number.
EscapedAt(e, j, lo) ==
    \E b \in (lo - 1) .. (j - 1) :
        /\ b = lo - 1 \/ e[b] # "\\"
        /\ \A k \in (b + 1) .. (j - 1) : e[k] = "\\"
        /\ (j - 1 - b) % 2 = 1

\* Is there a "]" that can end the class whose items start at e[lo]: one
\* that is not the first item and is not escaped.
HasClosingBracket(e, lo) ==
    \E j \in (lo + 1) .. Len(e) : e[j] = "]" /\ ~EscapedAt(e, j, lo)

ClassFrom(e, lo, neg) ==
    IF HasClosingBracket(e, lo) THEN ParseClassItems(e, lo, TRUE, neg, {}) ELSE Fail(lo)

ParseClass(e, i) ==
    IF i + 1 <= Len(e) /\ e[i + 1] = "^"
    THEN ClassFrom(e, i + 2, TRUE)
    ELSE ClassFrom(e, i + 1, FALSE)

RepeatOps == { "*", "+", "?" }

\* The characters that are not plain literals.
Meta == { "(", ")", "[", "\\", "*", "+", "?", ".", "^", "$", "|" }

\* The first position after i whose character is not a plain literal.
LiteralStop(e, i) ==
    IF \E j \in (i + 1) .. Len(e) : e[j] \in Meta
    THEN CHOOSE j \in (i + 1) .. Len(e) :
             e[j] \in Meta /\ \A k \in (i + 1) .. (j - 1) : e[k] \notin Meta
    ELSE Len(e) + 1

\* Adjacent literals are one literal; a repetition operator takes the last
\* character of the run only.
LiteralLen(e, i) ==
    IF LiteralStop(e, i) <= Len(e) /\ e[LiteralStop(e, i)] \in RepeatOps
          /\ LiteralStop(e, i) - i > 1
    THEN LiteralStop(e, i) - i - 1
    ELSE LiteralStop(e, i) - i

RepeatOp(c, r) ==
    IF c = "*" THEN [op |-> "star", sub |-> r]
    ELSE IF c = "+" THEN [op |-> "plus", sub |-> r]
    ELSE [op |-> "quest", sub |-> r]

RECURSIVE ParseAlternation(_, _)
RECURSIVE ParseConcat(_, _)

\* The end of a group: e[g.pos] is the ")" that closes it, or the text
\* ended (ErrMissingParen).
CloseGroup(e, g) ==
    IF ~g.ok THEN g
    ELSE IF g.pos > Len(e) THEN Fail(g.pos)
    ELSE Done(g.re, g.pos + 1)

\* One atom: a group, a class, an escape, ".", "^", "$" or a literal.  A
\* repetition operator with nothing before it is ErrMissingRepeatArgument.
ParseAtom(e, i) ==
    IF e[i] = "("
    THEN The({ CloseGroup(e, g) : g \in { ParseAlternation(e, i + 1) } })
    ELSE IF e[i] = "[" THEN ParseClass(e, i)
    ELSE IF e[i] = "\\"
    THEN IF i + 1 > Len(e) \/ EscapedChar(e[i + 1]) = ""
         THEN Fail(i)                    \* ErrTrailingBackslash, ErrInvalidEscape
         ELSE Done([op |-> "lit", s |-> << EscapedChar(e[i + 1]) >>], i + 2)
    ELSE IF e[i] \in RepeatOps THEN Fail(i)
    ELSE IF e[i] = "." THEN Done([op |-> "any"], i + 1)
    ELSE IF e[i] = "^" THEN Done([op |-> "bot"], i + 1)
    ELSE IF e[i] = "$" THEN Done([op |-> "eot"], i + 1)
    ELSE Done([op |-> "lit", s |-> SubSeq(e, i, i + LiteralLen(e, i) - 1)],
              i + LiteralLen(e, i))

\* The repetition operator after the atom a, if there is one.  A "?" after
\* the operator makes it non-greedy; a second operator is ErrInvalidRepeatOp.
Repeat(e, a) ==
    IF ~a.ok \/ a.pos > Len(e) \/ e[a.pos] \notin RepeatOps THEN a
    ELSE IF a.pos + 1 <= Len(e) /\ e[a.pos + 1] = "?"
    THEN IF a.pos + 2 <= Len(e) /\ e[a.pos + 2] \in RepeatOps
         THEN Fail(a.pos + 2)
         ELSE Done(RepeatOp(e[a.pos], a.re), a.pos + 2)
    ELSE IF a.pos + 1 <= Len(e) /\ e[a.pos + 1] \in RepeatOps
         THEN Fail(a.pos + 1)
         ELSE Done(RepeatOp(e[a.pos], a.re), a.pos + 1)

ParsePiece(e, i) == The({ Repeat(e, a) : a \in { ParseAtom(e, i) } })

\* The piece a followed by the rest of the concatenation.
Concat(a, rest) ==
    IF ~a.ok THEN a
    ELSE IF ~rest.ok THEN rest
    ELSE Done([op |-> "cat", l |-> a.re, r |-> rest.re], rest.pos)

\* A concatenation ends at "|", at ")" and at the end of the text.  p is
\* the first piece with what follows it.
ParseConcat(e, i) ==
    IF i > Len(e) \/ e[i] \in { "|", ")" } THEN Done([op |-> "empty"], i)
    ELSE The({ Concat(p[1], p[2]) :
               p \in { << a, IF a.ok THEN ParseConcat(e, a.pos) ELSE a >> :
                        a \in { ParsePiece(e, i) } } })

Alternate(a, rest) ==
    IF ~rest.ok THEN rest
    ELSE Done([op |-> "alt", l |-> a.re, r |-> rest.re], rest.pos)

AlternateAfter(e, a) ==
    IF ~a.ok \/ a.pos > Len(e) \/ e[a.pos] # "|" THEN a
    ELSE The({ Alternate(a, rest) : rest \in { ParseAlternation(e, a.pos + 1) } })

ParseAlternation(e, i) ==
    The({ AlternateAfter(e, a) : a \in { ParseConcat(e, i) } })

\* A ")" that closes no group is ErrUnexpectedParen.
WholeText(expr, r) == IF r.ok /\ r.pos <= Len(expr) THEN Fail(r.pos) ELSE r

\* regexp.Compile(expr): the syntax tree, or an error (ok = FALSE).
CompileText(e) == The({ WholeText(e, r) : r \in { ParseAlternation(e, 1) } })

Compile(expr) == The({ CompileText(e) : e \in {expr} })

(***************************************************************************)
(* Package regexp: matching.  Ends(re, s, from) is the set of positions    *)
(* (number of characters consumed) at which a match of re that starts at a *)
(* position of `from` can end.                                             *)
(***************************************************************************)
RECURSIVE Ends(_, _, _)
RECURSIVE StarEnds(_, _, _)

\* An expression that takes exactly one character, and whether it takes c.
SingleChar(re) ==
    re.op \in { "any", "class" } \/ (re.op = "lit" /\ Len(re.s) = 1)

Takes(re, c) ==
    IF re.op = "any" THEN c # "\n"
    ELSE IF re.op = "class" THEN (c \in re.set) # re.neg
    ELSE c = re.s[1]

\* The repetition of a one-character expression: the positions a run of
\* characters it takes leads to.
RunEnds(re, s, from) ==
    { q \in 0 .. Len(s) :
        \E p \in from : p <= q /\ \A k \in (p + 1) .. q : Takes(re, s[k]) }

Grow(re, s, from, more) ==
    IF more \subseteq from THEN from ELSE StarEnds(re, s, from \cup more)

StarEnds(re, s, from) ==
    The({ Grow(re, s, from, more) : more \in { Ends(re, s, from) } })

Ends(re, s, from) ==
    CASE re.op = "cat" ->
           The({ Ends(re.r, s, mid) : mid \in { Ends(re.l, s, from) } })
      [] re.op = "alt" -> Ends(re.l, s, from) \cup Ends(re.r, s, from)
      [] re.op = "empty" -> from
      [] re.op = "lit" ->
           { i + Len(re.s) : i \in { j \in from : OccursAt(s, re.s, j + 1) } }
      [] re.op \in { "any", "class" } ->
           { i + 1 : i \in { j \in from : j < Len(s) /\ Takes(re, s[j + 1]) } }
      [] re.op = "bot" -> from \cap {0}
      [] re.op = "eot" -> from \cap {Len(s)}
      [] re.op = "star" ->
           IF SingleChar(re.sub) THEN RunEnds(re.sub, s, from)
           ELSE StarEnds(re.sub, s, from)
      [] re.op = "plus" ->
           IF SingleChar(re.sub) THEN RunEnds(re.sub, s, Ends(re.sub, s, from))
           ELSE The({ StarEnds(re.sub, s, once) : once \in { Ends(re.sub, s, from) } })
      [] re.op = "quest" -> from \cup Ends(re.sub, s, from)

\* Regexp.MatchString: is there a match anywhere in s.
MatchString(re, s) ==
    The({ Ends(r, text, 0 .. Len(text)) : r \in {re}, text \in {s} }) # {}

(***************************************************************************)
(* pattern.Parse: the body of the scanning loop for one line.              *)
(***************************************************************************)
magicStar == << "#", "$", "~" >>

\* regexp.MustCompile("^([#!])").MatchString(line)
LeadsWithHashOrBang(line) == Len(line) > 0 /\ line[1] \in { "#", "!" }

\* regexp.MustCompile("([^/+])/.*\*\.").MatchString(line)
HasSlashThenStarDot(line) ==
    \E i \in 1 .. Len(line) :
        /\ line[i] \notin { "/", "+" }
        /\ i + 1 <= Len(line) /\ line[i + 1] = "/"
        /\ \E j \in (i + 2) .. (Len(line) - 1) :
              /\ line[j] = "*" /\ line[j + 1] = "."
              /\ \A k \in (i + 2) .. (j - 1) : line[k] # "\n"

\* The line as the loop sees it before it looks for "!": carriage returns
\* at the end are cut, then a line starting with "#" is dropped, then the
\* spaces at both ends are cut and an empty line is dropped.
StripCR(text) == TrimRight(text, "\r")
\* Variant: only "# " opens a comment.
IsCommentWithSpace(line) == HasPrefix(line, << "#", " " >>)
IsComment(line) == HasPrefix(line, << "#" >>)
\* Variant: only the spaces at the end are cut.
TrimSpacesAtEnd(line) == TrimRight(line, " ")
TrimSpaces(line) == Trim(line, " ")
IsSkipped(text) == IsComment(StripCR(text)) \/ TrimSpaces(StripCR(text)) = <<>>

\* [Rule 4]: a leading "!" negates the pattern and is cut.
Negated(line) == HasPrefix(line, << "!" >>)
AfterNegation(line) == IF Negated(line) THEN Tail(line) ELSE line

\* [Rule 2, 4]: the first character is cut when it is "#" or "!".
AfterEscape(line) == IF LeadsWithHashOrBang(line) THEN Tail(line) ELSE line

\* foo/*.blah gets a "/" in front.
AfterAnchor(line) ==
    IF HasSlashThenStarDot(line) /\ ~HasPrefix(line, << "/" >>)
    THEN << "/" >> \o line
    ELSE line

EscapeDots(line) == ReplaceAll(line, << "." >>, << "\\", "." >>)

\* Variant: the "/" before a leading "**/" is kept.
KeepRootOfDoubleStar(line) == line

DropRootOfDoubleStar(line) ==
    IF HasPrefix(line, << "/", "*", "*", "/" >>) THEN Tail(line) ELSE line

\* Variant: "/**/" stands for one or more segments, never for none.
ExpandDoubleStarsNeedsSegment(line) ==
    LET l1 == ReplaceAll(line, << "/", "*", "*", "/" >>,
                         << "(", "/", ".", "+", "/", ")" >>)
        l2 == ReplaceAll(l1, << "*", "*", "/" >>,
                         << "(", "|", "." >> \o magicStar \o << "/", ")" >>)
    IN  ReplaceAll(l2, << "/", "*", "*" >>,
                   << "(", "|", "/", "." >> \o magicStar \o << ")" >>)

\* Variant: a trailing "/**" stands for what is below the directory only.
ExpandDoubleStarsBelowOnly(line) ==
    LET l1 == ReplaceAll(line, << "/", "*", "*", "/" >>,
                         << "(", "/", "|", "/", ".", "+", "/", ")" >>)
        l2 == ReplaceAll(l1, << "*", "*", "/" >>,
                         << "(", "|", "." >> \o magicStar \o << "/", ")" >>)
    IN  ReplaceAll(l2, << "/", "*", "*" >>,
                   << "(", "/", "." >> \o magicStar \o << ")" >>)

ExpandDoubleStars(line) ==
    LET l1 == ReplaceAll(line, << "/", "*", "*", "/" >>,
                         << "(", "/", "|", "/", ".", "+", "/", ")" >>)
        l2 == ReplaceAll(l1, << "*", "*", "/" >>,
                         << "(", "|", "." >> \o magicStar \o << "/", ")" >>)
    IN  ReplaceAll(l2, << "/", "*", "*" >>,
                   << "(", "|", "/", "." >> \o magicStar \o << ")" >>)

\* Variant: a star stands for any run of characters, "/" included.
ExpandStarsAcrossSegments(line) ==
    LET l1 == ReplaceAll(line, << "\\", "*" >>, << "\\" >> \o magicStar)
    IN  ReplaceAll(l1, << "*" >>, << "(", ".", "*", ")" >>)

ExpandStars(line) ==
    LET l1 == ReplaceAll(line, << "\\", "*" >>, << "\\" >> \o magicStar)
    IN  ReplaceAll(l1, << "*" >>, << "(", "[", "^", "/", "]", "*", ")" >>)

\* Variant: a "?" stays the repetition operator of the expression.
KeepQuestionMarks(line) == line

EscapeQuestionMarks(line) == ReplaceAll(line, << "?" >>, << "\\", "?" >>)

RestoreStars(line) == ReplaceAll(line, magicStar, << "*" >>)

\* Variant: the tail of a directory rule is not told apart.
WithTailOfFile(line) == line \o << "(", "|", "/", ".", "*", ")", "$" >>

WithTail(line) ==
    IF HasSuffix(line, << "/" >>)
    THEN line \o << "(", "|", ".", "*", ")", "$" >>
    ELSE line \o << "(", "|", "/", ".", "*", ")", "$" >>

\* Variant: every pattern is matched from the start of the path only.
WithHeadRooted(expr) ==
    IF HasPrefix(expr, << "/" >>)
    THEN << "^", "(", "|", "/", ")" >> \o Tail(expr)
    ELSE << "^", "(", "|", "/", ")" >> \o expr

\* Variant: every pattern is matched from any segment boundary.
WithHeadAnywhere(expr) ==
    IF HasPrefix(expr, << "/" >>)
    THEN << "^", "(", "|", ".", "*", "/", ")" >> \o Tail(expr)
    ELSE << "^", "(", "|", ".", "*", "/", ")" >> \o expr

WithHead(expr) ==
    IF HasPrefix(expr, << "/" >>)
    THEN << "^", "(", "|", "/", ")" >> \o Tail(expr)
    ELSE << "^", "(", "|", ".", "*", "/", ")" >> \o expr

\* The expression text handed to regexp.Compile for a pattern (the line
\* after the "!" was cut).
Expr(line) ==
    The({ WithHead(l9) : l9 \in {
    The({ WithTail(l8) : l8 \in {
    The({ RestoreStars(l7) : l7 \in {
    The({ EscapeQuestionMarks(l6) : l6 \in {
    The({ ExpandStars(l5) : l5 \in {
    The({ ExpandDoubleStars(l4) : l4 \in {
    The({ DropRootOfDoubleStar(l3) : l3 \in {
    The({ EscapeDots(l2) : l2 \in {
    The({ AfterAnchor(l1) : l1 \in {
    The({ AfterEscape(l0) : l0 \in {line} }) } }) } }) } }) } }) } }) } }) } }) } }) } })

\* What one line of the source comes to: nothing (skip), a compile error, or
\* a Pattern{Regex, Negate}.
LineExpr(text) == The({ Expr(AfterNegation(line)) : line \in { TrimSpaces(StripCR(text)) } })
LineNegate(text) == Negated(TrimSpaces(StripCR(text)))
LineRegex(text) == Compile(LineExpr(text))

(***************************************************************************)
(* bufio.Scanner with the default split function (ScanLines).              *)
(***************************************************************************)
\* The first position of c in s, 0 when there is none.
IndexOf(s, c) ==
    IF \E i \in 1 .. Len(s) : s[i] = c
    THEN CHOOSE i \in 1 .. Len(s) : s[i] = c /\ \A j \in 1 .. (i - 1) : s[j] # c
    ELSE 0

\* dropCR: one carriage return at the end of a token is dropped.
DropCR(s) == IF Len(s) > 0 /\ s[Len(s)] = "\r" THEN SubSeq(s, 1, Len(s) - 1) ELSE s

\* Scan: is there another token; Text: the token; Advance: what is left.
\* The text after the last "\n" is a token unless it is empty.
HasToken(data) == Len(data) > 0

Text(data) ==
    LET n == IndexOf(data, "\n")
    IN  DropCR(IF n = 0 THEN data ELSE SubSeq(data, 1, n - 1))

Advance(data) ==
    LET n == IndexOf(data, "\n")
    IN  IF n = 0 THEN <<>> ELSE SubSeq(data, n + 1, Len(data))

\* The scanner reads on when the data it holds has no "\n": a token without
\* one is delivered only after the Read that ends the source, so a failing
\* source has failed by then.
ReadsToEnd(r) == r.fails /\ IndexOf(r.data, "\n") = 0

(***************************************************************************)
(* Errors: the set of errors errors.Is finds in the chain, the line number *)
(* and the expression text the message of Parse carries.                   *)
(***************************************************************************)
NoError == [chain |-> {}, line |-> 0, expr |-> <<>>]

ErrInvalidRegex == "invalid regex"
ErrScanningFile == "failed to scan file"
ErrRegexCompile == "failed to compile regex"
SyntaxError     == "regexp/syntax.Error"
ReadError       == "read error"
OpenError       == "open error"

IsError(e, target) == target \in e.chain

\* fmt.Errorf of the constructors: ErrRegexCompile is put in front of an
\* error that is ErrInvalidRegex; any other error is wrapped as it is.
WrapParseError(e) ==
    IF IsError(e, ErrInvalidRegex)
    THEN [e EXCEPT !.chain = @ \cup {ErrRegexCompile}]
    ELSE e

PathSeparator == "/"

(***************************************************************************)
(* Parse and File.Match as functions of their arguments: what the loops    *)
(* come to when nothing fails.                                             *)
(***************************************************************************)
\* The Pattern appended for a line that is compiled.
PatternOf(text) == [Regex |-> LineRegex(text).re, Negate |-> LineNegate(text)]

\* The positions of the lines that are compiled, and the k-th of them.
KeptLines(ls) == { i \in 1 .. Len(ls) : ~IsSkipped(ls[i]) }
KeptLine(ls, k) ==
    CHOOSE i \in KeptLines(ls) : Cardinality({ j \in KeptLines(ls) : j <= i }) = k

\* The patterns Parse returns for lines that all compile.
CompiledRules(ls) ==
    [k \in 1 .. Cardinality(KeptLines(ls)) |-> PatternOf(ls[KeptLine(ls, k)])]

\* The loop of Match from rule i on, match being m so far.
RECURSIVE MatchFrom(_, _, _, _)
MatchFrom(rules, p, i, m) ==
    IF i > Len(rules) THEN m
    ELSE IF MatchString(rules[i].Regex, p)
         THEN IF rules[i].Negate THEN FALSE ELSE MatchFrom(rules, p, i + 1, TRUE)
         ELSE MatchFrom(rules, p, i + 1, m)

\* What Match(p) returns on a File holding rules.
MatchAlone(rules, p) ==
    MatchFrom(rules, ReplaceAll(p, << PathSeparator >>, << "/" >>), 1, FALSE)

(***************************************************************************)
(* Inputs.  A source is a list of lines; a path is a text.                 *)
(***************************************************************************)
MaxNameLen == 2
MaxLitLen  == 3
MaxRawLen  == 2
MaxPathLen == 3
MaxLines   == 3

AllStr(A, lo, hi) == UNION { [1 .. k -> A] : k \in lo .. hi }

NameAlphabet == { "f", "o" }
LitAlphabet  == { "f", "o", ".", "/" }
RawAlphabet  == { "f", "/", "*", "!", "#", "\\" }

\* Literal names of one segment, and literal patterns: no wildcard, no
\* slash at either end.
Names    == AllStr(NameAlphabet, 1, MaxNameLen)
Literals == { p \in AllStr(LitAlphabet, 1, MaxLitLen) : p[1] # "/" /\ p[Len(p)] # "/" }

\* The shapes of rule line built on a name X.
Shapes(X) ==
    { X \o << "/" >>,
      << "/" >> \o X,
      << "*", "*", "/" >> \o X,
      << "/", "*", "*", "/" >> \o X,
      X \o << "/", "*", "*" >>,
      << "#" >> \o X,
      << "\\", "#" >> \o X,
      << "\\", "!" >> \o X,
      << "!" >> \o X,
      << "!", "#" >> \o X,
      << "!", "!" >> \o X,
      << "[" >> \o X }

RuleLines ==
    Literals \cup UNION { Shapes(X) : X \in Names } \cup AllStr(RawAlphabet, 0, MaxRawLen)

\* The lines that sources of several lines are made of: a positive rule, a
\* negation, a rule matching every name, a comment, a blank line, a
\* malformed pattern.
MixLines ==
    { << "f" >>, << "!", "f" >>, << "*" >>, << "!", "o" >>,
      << "#", "f" >>, << " " >>, << "[" >> }

foo == << "f", "o", "o" >>
abc == << "a", "b", "c" >>

\* The rule sets and paths of the tests of the repository (gitignore_test.go,
\* pattern_test.go) that the properties below name.
ExampleSources ==
    { << << "*", ".", "l", "o", "g" >>, << "!", "i", "m", "p", "o", "r", "t", "a", "n", "t", ".", "l", "o", "g" >> >>,
      << << "*", ".", "t", "x", "t" >>, << "!", "i", "m", "p", "o", "r", "t", "a", "n", "t", "/", "*", ".", "t", "x", "t" >>, << "i", "m", "p", "o", "r", "t", "a", "n", "t", "/", "t", "e", "m", "p", "/", "*", ".", "t", "x", "t" >> >>,
      << << "[", "i", "n", "v", "a", "l", "i", "d", "-", "r", "e", "g", "e", "x" >> >>,
      << << "*", ".", "l", "o", "g" >>, << "[", "i", "n", "v", "a", "l", "i", "d", "-", "r", "e", "g", "e", "x" >>, << "*", ".", "t", "m", "p" >> >>,
      << << "#", "a", "b", "c" >> >>,
      << << "\\", "#", "a", "b", "c" >> >>,
      << << "\\", "!", "a", "b", "c" >> >>,
      << << "!", "#", "f", "o", "o" >> >>,
      << << "!", "!", "f", "o", "o" >> >>,
      << << "\\", "#", "f", "o", "o" >>, << "!", "#", "f", "o", "o" >> >>,
      << << "*", "*", "/", "f", "o", "o" >> >>,
      << << "/", "*", "*", "/", "f", "o", "o" >> >>,
      << << "f", "o", "o", "/" >> >>,
      << << "f", "o", "o" >> >> }

ExamplePaths ==
    { << "i", "m", "p", "o", "r", "t", "a", "n", "t", ".", "l", "o", "g" >>,
      << "i", "m", "p", "o", "r", "t", "a", "n", "t", "/", "t", "e", "m", "p", "/", "d", "a", "t", "a", ".", "t", "x", "t" >>,
      << "#", "a", "b", "c" >>,
      << "!", "a", "b", "c" >>,
      << "#", "f", "o", "o" >>,
      << "!", "f", "o", "o" >>,
      << "f", "o", "o" >>,
      << "/", "f", "o", "o" >>,
      << "b", "a", "r", "/", "f", "o", "o" >>,
      << "b", "a", "r", "/", "b", "a", "z" >>,
      << "f", "o", "o", "/" >>,
      << "f", "o", "o", "/", "b", "a", "r" >> }

\* Rule lines with a question mark, and the paths they are tried on: the
\* line itself, and the name with another character at the place of the
\* "?" (the names with a character less are paths already).
fileQ == << "f", "i", "l", "e", "?", ".", "t", "x", "t" >>
fileA == << "f", "i", "l", "e", "A", ".", "t", "x", "t" >>
fileDot == << "f", "i", "l", "e", ".", "t", "x", "t" >>

QuestionLines == { X \o << "?" >> : X \in Names } \cup { fileQ }
QuestionPaths ==
    QuestionLines \cup { X \o << "f" >> : X \in Names } \cup { fileA, fileDot }

\* The inputs of TestParse that count the rules: three patterns, a pattern
\* between two comments, a pattern between blank lines.
ThreePatterns == << << "*", ".", "l", "o", "g" >>, << "*", ".", "t", "m", "p" >>, << "*", ".", "c", "a", "c", "h", "e" >> >>
BetweenComments == << << "#", " ", "T", "h", "i", "s", " ", "i", "s", " ", "a", " ", "c", "o", "m", "m", "e", "n", "t" >>, << "*", ".", "l", "o", "g" >>, << "#", " ", "A", "n", "o", "t", "h", "e", "r", " ", "c", "o", "m", "m", "e", "n", "t" >> >>
BetweenBlanks == << <<>>, << "*", ".", "l", "o", "g" >>, <<>> >>
CountSources == { ThreePatterns, BetweenComments, BetweenBlanks }

\* Rule lines with a "/" and later a segment "*.ext", the same lines with
\* "/" before them, and the paths they are tried on.
fooStarTxt == << "f", "o", "o", "/", "*", ".", "t", "x", "t" >>
fooDeepBar == << "f", "o", "o", "/", "*", "*", "/", "*", ".", "b", "a", "r" >>
plusStarF == << "o", "+", "/", "*", ".", "f" >>
StarExtLines == { X \o << "/", "*", ".", "f" >> : X \in Names } \cup { fooStarTxt, fooDeepBar, plusStarF }
Rooted(line) == << "/" >> \o line
AnchorLines == StarExtLines \cup { Rooted(l) : l \in StarExtLines }
AnchorPaths ==
    { X \o << "/", ".", "f" >> : X \in Names }
        \cup { << "o", "/" >> \o X \o << "/", ".", "f" >> : X \in Names }
        \cup { << "f", "o", "o", "/", "a", ".", "t", "x", "t" >>,
               << "x", "/", "f", "o", "o", "/", "a", ".", "t", "x", "t" >>,
               << "a", "b", "c", ".", "b", "a", "r" >>,
               << "f", "o", "o", "/", "a", "b", "c", ".", "b", "a", "r" >>,
               << "f", "o", "o", "/", "x", "/", "y", "/", "z", ".", "b", "a", "r" >> }

\* Rooted and unrooted rule lines of the tests, and the paths they are tried
\* on.
dotjs == << ".", "j", "s" >>
dotjsStar == << ".", "j", "s", "*" >>
RootLines == { dotjs, Rooted(dotjs), dotjsStar, Rooted(foo) }
RootPaths ==
    { << ".", "j", "s" >>, << ".", "j", "s", "/" >>, << ".", "j", "s", "/", "a" >>, << "/", ".", "j", "s" >>, << "x", "/", ".", "j", "s" >>,
      << ".", "j", "s", "a" >>, << "a", ".", "j", "s", "/", "a" >>, << "x", "/", "f", "o", "o" >>, << "x", "f", "o", "o" >> }

\* Rule lines with one star between two literal parts, the same with the
\* star escaped, and the paths they are tried on.
StarParts == { <<>>, << "f" >>, << "o" >> }
StarLine(A, B) == A \o << "*" >> \o B
EscapedStarLine(A, B) == A \o << "\\", "*" >> \o B
starDotJs == << "*", ".", "j", "s" >>
importantStarTxt == << "i", "m", "p", "o", "r", "t", "a", "n", "t", "/", "*", ".", "t", "x", "t" >>
StarLines ==
    { StarLine(A, B) : A, B \in StarParts }
        \cup { EscapedStarLine(A, B) : A, B \in StarParts }
        \cup { starDotJs, importantStarTxt }
StarPaths ==
    { StarLine(A, B) : A, B \in StarParts }
        \cup { << "a", ".", "j", "s" >>, << "f", "*", "*", "f" >>, << "o", "/", "*", "f" >>, << "*", "f", "/", "o" >>, << "o", "*", "/", "f" >> }

\* Rule lines with "/**/" between two names, the directory rule "foo/**/",
\* and the paths they are tried on: the two names with no, one and two
\* segments between them, with an empty segment between them, and with a
\* segment before or after them.
InnerNames == { << "f" >>, << "o" >> }
InnerLine(X, Y) == X \o << "/", "*", "*", "/" >> \o Y
fooDeepDir == << "f", "o", "o", "/", "*", "*", "/" >>
InnerLines == { InnerLine(X, Y) : X, Y \in InnerNames } \cup { fooDeepDir }
InnerPaths ==
    { X \o << "/" >> \o M \o << "/" >> \o Y : X, Y \in InnerNames, M \in InnerNames \cup { <<>> } }
        \cup { << "f", "/", "f", "/", "f", "/", "o" >>, << "f", "/", "o", "/", "f", "/", "o" >>, << "o", "/", "f", "/", "o", "/" >>, << "f", "/", "o", "/", "o" >>,
               << "o", "f", "/", "f", "/", "o" >>, << "f", "/", "o", "/", "f", "o" >>,
               << "f", "o", "o", "/", "a", "b", "c", "/" >>, << "f", "o", "o", "/", "x", "/", "y", "/", "z", "/" >> }

\* Rule lines that end in "/**", the two rules of the test "Complex Pattern
\* with Negation", and the paths of that test.
BelowLine(X) == X \o << "/", "*", "*" >>
LogsRules == << << "*", "*", "/", "l", "o", "g", "s", "/", "*", "*" >>, << "!", "*", "*", "/", "l", "o", "g", "s", "/", "k", "e", "e", "p", "/", "*", "*" >> >>
keepDebugLog == << "s", "e", "r", "v", "e", "r", "/", "l", "o", "g", "s", "/", "k", "e", "e", "p", "/", "d", "e", "b", "u", "g", ".", "l", "o", "g" >>
otherDebugLog == << "s", "e", "r", "v", "e", "r", "/", "l", "o", "g", "s", "/", "o", "t", "h", "e", "r", "/", "d", "e", "b", "u", "g", ".", "l", "o", "g" >>
BelowLines == { BelowLine(foo) }
BelowSources == { LogsRules }
BelowPaths == { keepDebugLog, otherDebugLog }

\* Pattern texts, the lines made of one with spaces around it and carriage
\* returns after it, and lines of spaces and carriage returns alone.
TrimPatterns ==
    { << "f" >>, << "!", "f" >>, << "f", "/" >>, << "*", ".", "f" >>, << "f", " ", "o" >> }
Padded(P) ==
    { << " " >> \o P, P \o << " " >>, << " " >> \o P \o << " " >>,
      << " ", " " >> \o P \o << " ", " " >>,
      P \o << "\r" >>, P \o << "\r", "\r" >>, << " " >> \o P \o << " ", "\r" >> }
BlankLines ==
    { <<>>, << " " >>, << " ", " " >>, << "\r" >>, << "\r", "\r" >>, << " ", "\r" >>,
      << " ", " ", "\r", "\r" >>, << "\r", " " >>, << " ", "\r", " " >> }
TrimLines == TrimPatterns \cup UNION { Padded(P) : P \in TrimPatterns } \cup BlankLines

\* The single rule lines and the paths the properties of the translation
\* steps are about.
StepLines == QuestionLines \cup AnchorLines \cup RootLines \cup StarLines
                 \cup InnerLines \cup BelowLines \cup TrimLines
StepPaths == QuestionPaths \cup AnchorPaths \cup RootPaths \cup StarPaths
                 \cup InnerPaths \cup BelowPaths

Sources ==
    { << l >> : l \in RuleLines \cup StepLines }
        \cup AllStr(MixLines, 0, MaxLines) \cup ExampleSources \cup CountSources
        \cup BelowSources

PathAlphabet == { "f", "o", "/", "." }
Paths ==
    AllStr(PathAlphabet, 0, MaxPathLen)
        \cup { << c >> \o p : c \in { "#", "!" }, p \in AllStr(NameAlphabet, 0, MaxPathLen - 1) }
        \cup ExamplePaths \cup StepPaths

(***************************************************************************)
(* The state.                                                              *)
(***************************************************************************)
VARIABLES
    lines,       \* the source: the lines of the file, or the lines argument
    call,        \* the constructor that is running, "" when none is
    pc,          \* where the program stands
    reader,      \* the io.Reader Parse scans: the unread data, whether
                 \* reading fails once the data is used up (fails), and
                 \* whether a Read of the scanner has failed (failed)
    lineNumber,  \* Parse: lineNumber
    patterns,    \* Parse: patterns
    ret,         \* what Parse returned: ([]*Pattern, error)
    file,        \* what the constructor returned: the *File ...
    err,         \* ... and the error
    path,        \* Match: path
    idx,         \* Match: the number of patterns the loop has examined
    match,       \* Match: match
    result,      \* what Match returned
    readers      \* the Match calls of concurrent goroutines on the one
                 \* *File: for each goroutine its own path, idx, match and
                 \* result, and where it stands (pc)

vars == << lines, call, pc, reader, lineNumber, patterns, ret, file, err,
           path, idx, match, result, readers >>

NoReader == [data |-> <<>>, fails |-> FALSE, failed |-> FALSE]
NilRet   == [nil |-> TRUE, patterns |-> <<>>, err |-> NoError]
NilFile  == [nil |-> TRUE, patterns |-> <<>>]
NoResult == "none"

\* The goroutines that call Match on one shared *File.
Goroutines == { "g1", "g2" }
Idle == [pc |-> "idle", path |-> <<>>, idx |-> 0, match |-> FALSE, result |-> NoResult]

Init ==
    /\ lines \in Sources
    /\ call = ""
    /\ pc = "start"
    /\ reader = NoReader
    /\ lineNumber = 0
    /\ patterns = <<>>
    /\ ret = NilRet
    /\ file = NilFile
    /\ err = NoError
    /\ path = <<>>
    /\ idx = 0
    /\ match = FALSE
    /\ result = NoResult
    /\ readers = [g \in Goroutines |-> Idle]

matchVars == << path, idx, match, result >>
parseVars == << reader, lineNumber, patterns, ret >>

(***************************************************************************)
(* gitignore.New and gitignore.NewFromLines, up to the call of Parse.      *)
(***************************************************************************)
\* New(path): os.Open succeeds; the file holds the lines, and reading it
\* may fail once they are read.
New ==
    /\ pc = "start"
    /\ \E fails \in BOOLEAN :
          reader' = [data |-> JoinWithSeparator(<< "\n" >>, lines),
                     fails |-> fails, failed |-> FALSE]
    /\ call' = "New"
    /\ pc' = "scan"
    /\ UNCHANGED << lines, readers, lineNumber, patterns, ret, file, err, matchVars >>

\* New(path): os.Open fails.
NewOpenFails ==
    /\ pc = "start"
    /\ call' = "New"
    /\ file' = NilFile
    /\ err' = [chain |-> {OpenError}, line |-> 0, expr |-> <<>>]
    /\ pc' = "failed"
    /\ UNCHANGED << lines, readers, parseVars, matchVars >>

\* NewFromLines(lines): a strings.Reader over the joined lines never fails.
NewFromLines ==
    /\ pc = "start"
    /\ reader' = [data |-> JoinWithSeparator(<< "\n" >>, lines),
                  fails |-> FALSE, failed |-> FALSE]
    /\ call' = "NewFromLines"
    /\ pc' = "scan"
    /\ UNCHANGED << lines, readers, lineNumber, patterns, ret, file, err, matchVars >>

(***************************************************************************)
(* pattern.Parse.                                                          *)
(***************************************************************************)
InvalidRegex(expr, n) ==
    [chain |-> {ErrInvalidRegex, SyntaxError}, line |-> n, expr |-> expr]

\* Variant: a line whose expression does not compile is left out.
ParseLineSkipsMalformed ==
    /\ pc = "scan"
    /\ HasToken(reader.data)
    /\ lineNumber' = lineNumber + 1
    /\ reader' = [reader EXCEPT !.data = Advance(@), !.failed = ReadsToEnd(reader)]
    /\ LET line == Text(reader.data)
       IN  IF IsSkipped(line) \/ ~LineRegex(line).ok
           THEN UNCHANGED << patterns, ret, pc >>
           ELSE /\ patterns' = Append(patterns,
                       [Regex |-> LineRegex(line).re, Negate |-> LineNegate(line)])
                /\ UNCHANGED << ret, pc >>
    /\ UNCHANGED << lines, readers, call, file, err, matchVars >>

\* Variant: lineNumber counts the lines that are compiled, not all lines.
ParseLineCountsRules ==
    /\ pc = "scan"
    /\ HasToken(reader.data)
    /\ reader' = [reader EXCEPT !.data = Advance(@), !.failed = ReadsToEnd(reader)]
    /\ LET line == Text(reader.data)
       IN  IF IsSkipped(line)
           THEN UNCHANGED << lineNumber, patterns, ret, pc >>
           ELSE LET regex == LineRegex(line)
                IN  /\ lineNumber' = lineNumber + 1
                    /\ IF ~regex.ok
                       THEN /\ ret' = [nil |-> TRUE, patterns |-> <<>>,
                                       err |-> InvalidRegex(LineExpr(line), lineNumber + 1)]
                            /\ pc' = "parsed"
                            /\ UNCHANGED patterns
                       ELSE /\ patterns' = Append(patterns,
                                   [Regex |-> regex.re, Negate |-> LineNegate(line)])
                            /\ UNCHANGED << ret, pc >>
    /\ UNCHANGED << lines, readers, call, file, err, matchVars >>

\* Variant: negatePattern is not reset from one line to the next.
ParseLineKeepsNegation ==
    /\ pc = "scan"
    /\ HasToken(reader.data)
    /\ lineNumber' = lineNumber + 1
    /\ reader' = [reader EXCEPT !.data = Advance(@), !.failed = ReadsToEnd(reader)]
    /\ LET line == Text(reader.data)
       IN  IF IsSkipped(line)
           THEN UNCHANGED << patterns, ret, pc >>
           ELSE LET regex == LineRegex(line)
                IN  IF ~regex.ok
                    THEN /\ ret' = [nil |-> TRUE, patterns |-> <<>>,
                                    err |-> InvalidRegex(LineExpr(line), lineNumber + 1)]
                         /\ pc' = "parsed"
                         /\ UNCHANGED patterns
                    ELSE /\ patterns' = Append(patterns,
                                [Regex |-> regex.re,
                                 Negate |-> \/ LineNegate(line)
                                            \/ /\ Len(patterns) > 0
                                               /\ patterns[Len(patterns)].Negate])
                         /\ UNCHANGED << ret, pc >>
    /\ UNCHANGED << lines, readers, call, file, err, matchVars >>

\* Variant: the new pattern is put before the ones compiled so far.
ParseLinePrepends ==
    /\ pc = "scan"
    /\ HasToken(reader.data)
    /\ lineNumber' = lineNumber + 1
    /\ reader' = [reader EXCEPT !.data = Advance(@), !.failed = ReadsToEnd(reader)]
    /\ LET line == Text(reader.data)
       IN  IF IsSkipped(line)
           THEN UNCHANGED << patterns, ret, pc >>
           ELSE LET regex == LineRegex(line)
                IN  IF ~regex.ok
                    THEN /\ ret' = [nil |-> TRUE, patterns |-> <<>>,
                                    err |-> InvalidRegex(LineExpr(line), lineNumber + 1)]
                         /\ pc' = "parsed"
                         /\ UNCHANGED patterns
                    ELSE /\ patterns' = << [Regex |-> regex.re, Negate |-> LineNegate(line)] >>
                                           \o patterns
                         /\ UNCHANGED << ret, pc >>
    /\ UNCHANGED << lines, readers, call, file, err, matchVars >>

\* One turn of the loop: the next line is skipped, or compiled and appended,
\* or its expression does not compile and Parse returns the error.
ParseLine ==
    /\ pc = "scan"
    /\ HasToken(reader.data)
    /\ lineNumber' = lineNumber + 1
    /\ reader' = [reader EXCEPT !.data = Advance(@), !.failed = ReadsToEnd(reader)]
    /\ LET line == Text(reader.data)
       IN  IF IsSkipped(line)
           THEN UNCHANGED << patterns, ret, pc >>
           ELSE LET regex == LineRegex(line)
                IN  IF ~regex.ok
                    THEN /\ ret' = [nil |-> TRUE, patterns |-> <<>>,
                                    err |-> InvalidRegex(LineExpr(line), lineNumber + 1)]
                         /\ pc' = "parsed"
                         /\ UNCHANGED patterns
                    ELSE /\ patterns' = Append(patterns,
                                [Regex |-> regex.re, Negate |-> LineNegate(line)])
                         /\ UNCHANGED << ret, pc >>
    /\ UNCHANGED << lines, readers, call, file, err, matchVars >>

\* Variant: scanner.Err() is not looked at.
ParseEndIgnoresErr ==
    /\ pc = "scan"
    /\ ~HasToken(reader.data)
    /\ ret' = [nil |-> FALSE, patterns |-> patterns, err |-> NoError]
    /\ reader' = [reader EXCEPT !.failed = reader.fails]
    /\ pc' = "parsed"
    /\ UNCHANGED << lines, readers, call, lineNumber, patterns, file, err, matchVars >>

\* After the loop: scanner.Err() is the read error if reading failed.
ParseEnd ==
    /\ pc = "scan"
    /\ ~HasToken(reader.data)
    /\ ret' = IF reader.fails
              THEN [nil |-> TRUE, patterns |-> <<>>,
                    err |-> [chain |-> {ErrScanningFile, ReadError}, line |-> 0, expr |-> <<>>]]
              ELSE [nil |-> FALSE, patterns |-> patterns, err |-> NoError]
    /\ reader' = [reader EXCEPT !.failed = reader.fails]
    /\ pc' = "parsed"
    /\ UNCHANGED << lines, readers, call, lineNumber, patterns, file, err, matchVars >>

(***************************************************************************)
(* New and NewFromLines after Parse returned.                              *)
(***************************************************************************)
Construct ==
    /\ pc = "parsed"
    /\ IF ret.err # NoError
       THEN /\ file' = NilFile
            /\ err' = WrapParseError(ret.err)
            /\ pc' = "failed"
       ELSE /\ file' = [nil |-> FALSE, patterns |-> ret.patterns]
            /\ err' = NoError
            /\ pc' = "ready"
    /\ call' = ""
    /\ UNCHANGED << lines, readers, parseVars, matchVars >>

(***************************************************************************)
(* File.Match.                                                             *)
(***************************************************************************)
\* The call: the separators of the path are normalised, match is false.
\* A behaviour follows one call on the File that was built.
MatchCall ==
    /\ pc = "ready"
    /\ \E p \in Paths : path' = ReplaceAll(p, << PathSeparator >>, << "/" >>)
    /\ idx' = 0
    /\ match' = FALSE
    /\ result' = NoResult
    /\ pc' = "match"
    /\ UNCHANGED << lines, readers, call, parseVars, file, err >>

\* Variant: the last rule that accepts the path decides (a negation sets
\* match to false and the loop goes on).
MatchStepLastMatchWins ==
    /\ pc = "match"
    /\ idx < Len(file.patterns)
    /\ LET pat == file.patterns[idx + 1]
       IN  IF MatchString(pat.Regex, path)
           THEN match' = ~pat.Negate
           ELSE UNCHANGED match
    /\ idx' = idx + 1
    /\ UNCHANGED << lines, readers, call, parseVars, file, err, path, result, pc >>

\* Variant: a negation rule ends the loop whether or not it accepts the path.
MatchStepAnyNegationEnds ==
    /\ pc = "match"
    /\ idx < Len(file.patterns)
    /\ LET pat == file.patterns[idx + 1]
       IN  IF pat.Negate
           THEN /\ result' = "false"
                /\ pc' = "done"
                /\ UNCHANGED match
           ELSE /\ match' = (match \/ MatchString(pat.Regex, path))
                /\ UNCHANGED << result, pc >>
    /\ idx' = idx + 1
    /\ UNCHANGED << lines, readers, call, parseVars, file, err, path >>

\* Variant: the loop goes on to the next rule only when the rule it looked
\* at accepts the path.
MatchStepStays ==
    /\ pc = "match"
    /\ idx < Len(file.patterns)
    /\ LET pat == file.patterns[idx + 1]
       IN  IF MatchString(pat.Regex, path)
           THEN /\ idx' = idx + 1
                /\ IF pat.Negate
                   THEN /\ result' = "false"
                        /\ pc' = "done"
                        /\ UNCHANGED match
                   ELSE /\ match' = TRUE
                        /\ UNCHANGED << result, pc >>
           ELSE UNCHANGED << idx, match, result, pc >>
    /\ UNCHANGED << lines, readers, call, parseVars, file, err, path >>

\* Variant: the first rule that accepts the path decides.
MatchStepFirstMatchWins ==
    /\ pc = "match"
    /\ idx < Len(file.patterns)
    /\ LET pat == file.patterns[idx + 1]
       IN  IF MatchString(pat.Regex, path)
           THEN /\ result' = IF pat.Negate THEN "false" ELSE "true"
                /\ pc' = "done"
                /\ UNCHANGED match
           ELSE UNCHANGED << match, result, pc >>
    /\ idx' = idx + 1
    /\ UNCHANGED << lines, readers, call, parseVars, file, err, path >>

\* One turn of the loop over f.patterns.
MatchStep ==
    /\ pc = "match"
    /\ idx < Len(file.patterns)
    /\ LET pat == file.patterns[idx + 1]
       IN  IF MatchString(pat.Regex, path)
           THEN IF pat.Negate
                THEN /\ result' = "false"
                     /\ pc' = "done"
                     /\ UNCHANGED match
                ELSE /\ match' = TRUE
                     /\ UNCHANGED << result, pc >>
           ELSE UNCHANGED << match, result, pc >>
    /\ idx' = idx + 1
    /\ UNCHANGED << lines, readers, call, parseVars, file, err, path >>

\* After the loop: return match.
MatchReturn ==
    /\ pc = "match"
    /\ idx = Len(file.patterns)
    /\ result' = IF match THEN "true" ELSE "false"
    /\ pc' = "done"
    /\ UNCHANGED << lines, readers, call, parseVars, file, err, path, idx, match >>

Next ==
    \/ New
    \/ NewOpenFails
    \/ NewFromLines
    \/ ParseLine
    \/ ParseEnd
    \/ Construct
    \/ MatchCall
    \/ MatchStep
    \/ MatchReturn

Spec == Init /\ [][Next]_vars

\* A Match call that is under way is not suspended for ever: the goroutine
\* that runs it is runnable at every turn of its loop and at its return,
\* and the Go scheduler runs a runnable goroutine.
FairSpec == Spec /\ WF_vars(MatchStep) /\ WF_vars(MatchReturn)

(***************************************************************************)
(* Concurrent readers: goroutines that call Match on one *File, each with  *)
(* its own arguments and locals.  f.patterns is the only thing they share. *)
(***************************************************************************)
SharedLines == { << "f" >>, << "!", "f" >>, << "*" >>, << "!", "o" >> }
SharedSources == AllStr(SharedLines, 0, MaxLines)
SharedPaths == { <<>>, << "f" >>, << "o" >>, << "f", "/", "o" >> }

\* Variant: a Match that moves the rule that accepted the path to the front
\* of f.patterns.
SharedMatchStepMovesToFront(g) ==
    /\ pc = "ready"
    /\ readers[g].pc = "match"
    /\ readers[g].idx < Len(file.patterns)
    /\ LET me == readers[g]
           pat == file.patterns[me.idx + 1]
       IN  IF MatchString(pat.Regex, me.path)
           THEN /\ file' = [file EXCEPT !.patterns =
                                << pat >> \o SubSeq(file.patterns, 1, me.idx)
                                  \o SubSeq(file.patterns, me.idx + 2, Len(file.patterns))]
                /\ IF pat.Negate
                   THEN readers' = [readers EXCEPT ![g].result = "false",
                                                   ![g].pc = "done",
                                                   ![g].idx = me.idx + 1]
                   ELSE readers' = [readers EXCEPT ![g].match = TRUE,
                                                   ![g].idx = me.idx + 1]
           ELSE /\ readers' = [readers EXCEPT ![g].idx = me.idx + 1]
                /\ UNCHANGED file
    /\ UNCHANGED << lines, call, pc, parseVars, err, matchVars >>

\* Goroutine g calls f.Match(path): the path is normalised, match is false.
SharedMatchCall(g) ==
    /\ pc = "ready"
    /\ readers[g].pc = "idle"
    /\ \E p \in SharedPaths :
          readers' = [readers EXCEPT ![g] =
                         [pc |-> "match",
                          path |-> ReplaceAll(p, << PathSeparator >>, << "/" >>),
                          idx |-> 0, match |-> FALSE, result |-> NoResult]]
    /\ UNCHANGED << lines, call, pc, parseVars, file, err, matchVars >>

\* One turn of g's loop over f.patterns.
SharedMatchStep(g) ==
    /\ pc = "ready"
    /\ readers[g].pc = "match"
    /\ readers[g].idx < Len(file.patterns)
    /\ LET me == readers[g]
           pat == file.patterns[me.idx + 1]
       IN  IF MatchString(pat.Regex, me.path)
           THEN IF pat.Negate
                THEN readers' = [readers EXCEPT ![g].result = "false",
                                                ![g].pc = "done",
                                                ![g].idx = me.idx + 1]
                ELSE readers' = [readers EXCEPT ![g].match = TRUE,
                                                ![g].idx = me.idx + 1]
           ELSE readers' = [readers EXCEPT ![g].idx = me.idx + 1]
    /\ UNCHANGED << lines, call, pc, parseVars, file, err, matchVars >>

\* After g's loop: return match.
SharedMatchReturn(g) ==
    /\ pc = "ready"
    /\ readers[g].pc = "match"
    /\ readers[g].idx = Len(file.patterns)
    /\ readers' = [readers EXCEPT ![g].result = IF readers[g].match THEN "true" ELSE "false",
                                  ![g].pc = "done"]
    /\ UNCHANGED << lines, call, pc, parseVars, file, err, matchVars >>

SharedInit == Init /\ lines \in SharedSources

SharedNext ==
    \/ New
    \/ NewOpenFails
    \/ NewFromLines
    \/ ParseLine
    \/ ParseEnd
    \/ Construct
    \/ \E g \in Goroutines : SharedMatchCall(g)
    \/ \E g \in Goroutines : SharedMatchStep(g)
    \/ \E g \in Goroutines : SharedMatchReturn(g)

SharedSpec == SharedInit /\ [][SharedNext]_vars

(***************************************************************************)
(* Vocabulary of the properties.                                           *)
(***************************************************************************)
\* The rule set stands (a constructor returned it and Match may run on it).
Built == pc \in { "ready", "match", "done" }

\* Match has returned; Verdict is what it returned.
Returned == pc = "done"
Verdict == result = "true"

Rules == file.patterns
Accepts(i) == MatchString(Rules[i].Regex, path)
NegationAccepts == \E i \in 1 .. Len(Rules) : Rules[i].Negate /\ Accepts(i)
PositiveAccepts == \E i \in 1 .. Len(Rules) : ~Rules[i].Negate /\ Accepts(i)

\* The segments of a path: the texts between its slashes.
RECURSIVE Segments(_)
Segments(s) ==
    LET n == IndexOf(s, "/")
    IN  IF n = 0 THEN << s >>
        ELSE << SubSeq(s, 1, n - 1) >> \o Segments(SubSeq(s, n + 1, Len(s)))

HasSegment(s, X) == \E i \in 1 .. Len(Segments(s)) : Segments(s)[i] = X
HasSegmentBeforeSlash(s, X) == \E i \in 1 .. (Len(Segments(s)) - 1) : Segments(s)[i] = X

\* p stands in s from one segment boundary to another.
StandsAtBoundaries(s, p) ==
    \E i \in 1 .. (Len(s) - Len(p) + 1) :
        /\ SubSeq(s, i, i + Len(p) - 1) = p
        /\ (i = 1 \/ s[i - 1] = "/")
        /\ (i + Len(p) - 1 = Len(s) \/ s[i + Len(p)] = "/")

\* A line that is compiled and whose expression regexp.Compile rejects.
Malformed(text) == ~IsSkipped(text) /\ ~LineRegex(text).ok
HasMalformed(ls) == \E i \in 1 .. Len(ls) : Malformed(ls[i])
FirstMalformed(ls) == CHOOSE i \in 1 .. Len(ls) :
                          Malformed(ls[i]) /\ \A j \in 1 .. (i - 1) : ~Malformed(ls[j])
RulesBefore(ls, n) == Cardinality({ j \in 1 .. (n - 1) : ~IsSkipped(ls[j]) })

ParseReturned == pc = "parsed"
ConstructorReturned == pc \in { "ready", "failed" } /\ ~IsError(err, OpenError)

(***************************************************************************)
(* C1.  Negation short-circuit: whenever the matcher of some negation rule *)
(* accepts the path, Match returns false, wherever that rule stands in the *)
(* list - after positive rules that accepted the path or before one.       *)
(***************************************************************************)
C1_NegationShortCircuit ==
    (Returned /\ NegationAccepts) => ~Verdict

\* A negation rule that accepts the path stands before a positive rule
\* that accepts it too, and Match returned false.
C1_Witness ==
    /\ Returned /\ ~Verdict
    /\ \E i, j \in 1 .. Len(Rules) :
          /\ i < j
          /\ Rules[i].Negate /\ Accepts(i)
          /\ ~Rules[j].Negate /\ Accepts(j)

(***************************************************************************)
(* C2.  When the matcher of no negation rule accepts the path, Match       *)
(* returns true exactly when the matcher of some positive rule accepts it: *)
(* a negation rule that does not accept the path changes nothing, also     *)
(* between two positive rules, and no rules at all give false.             *)
(***************************************************************************)
C2_PositiveDecides ==
    (Returned /\ ~NegationAccepts) => (Verdict <=> PositiveAccepts)

\* The rules "*.txt", "!important/*.txt", "important/temp/*.txt" on the path
\* "important/temp/data.txt": the negation between the two positive rules
\* does not accept the path, and Match returned true.
C2_Witness ==
    /\ Returned /\ Verdict
    /\ Len(Rules) = 3
    /\ path = << "i", "m", "p", "o", "r", "t", "a", "n", "t", "/", "t", "e", "m", "p",
                 "/", "d", "a", "t", "a", ".", "t", "x", "t" >>
    /\ ~Rules[1].Negate /\ Accepts(1)
    /\ Rules[2].Negate /\ ~Accepts(2)
    /\ ~Rules[3].Negate /\ Accepts(3)

(***************************************************************************)
(* C3.  A rule set of one positive literal rule p (no wildcard, no slash   *)
(* at either end, no special first character).                             *)
(***************************************************************************)
OneLiteralRule == Len(lines) = 1 /\ lines[1] \in Literals

\* As claimed: Match is true exactly for the paths equal to p or starting
\* with p + "/".
C3_AsClaimed ==
    (Returned /\ OneLiteralRule) =>
        (Verdict <=> (path = lines[1] \/ HasPrefix(path, lines[1] \o << "/" >>)))

\* As the code has it: Match is true exactly for the paths in which p
\* stands from one segment boundary (the start of the path or a "/") to
\* another (the end of the path or a "/"), at any depth.
C3_LiteralAtAnyDepth ==
    (Returned /\ OneLiteralRule) => (Verdict <=> StandsAtBoundaries(path, lines[1]))

\* The literal rule accepted a path that neither is p nor starts with p/.
C3_Witness ==
    /\ Returned /\ OneLiteralRule /\ Verdict
    /\ path # lines[1]
    /\ ~HasPrefix(path, lines[1] \o << "/" >>)

(***************************************************************************)
(* C4.  Compilation is all-or-nothing.  If a line of the source is a       *)
(* malformed pattern, Parse returns no patterns and an error that is       *)
(* ErrInvalidRegex, and the constructor no File and an error that is       *)
(* ErrRegexCompile, whatever valid lines stand before and after it.  If no *)
(* line is malformed and reading does not fail, they return the rule set   *)
(* and no error.                                                           *)
(***************************************************************************)
C4_AllOrNothing ==
    /\ (ParseReturned /\ HasMalformed(lines)) =>
            (ret.nil /\ IsError(ret.err, ErrInvalidRegex))
    /\ (ParseReturned /\ ~HasMalformed(lines) /\ ~reader.fails) =>
            (~ret.nil /\ ret.err = NoError)
    /\ (ConstructorReturned /\ HasMalformed(lines)) =>
            (file.nil /\ IsError(err, ErrRegexCompile) /\ IsError(err, ErrInvalidRegex))
    /\ (ConstructorReturned /\ ~HasMalformed(lines) /\ ~reader.fails) =>
            (~file.nil /\ err = NoError /\ pc = "ready")

\* A constructor failed with ErrRegexCompile on a source whose malformed
\* line stands between two lines that compile.
C4_Witness ==
    /\ pc = "failed" /\ file.nil /\ IsError(err, ErrRegexCompile)
    /\ Len(lines) = 3
    /\ ~IsSkipped(lines[1]) /\ ~Malformed(lines[1])
    /\ Malformed(lines[2])
    /\ ~IsSkipped(lines[3]) /\ ~Malformed(lines[3])

(***************************************************************************)
(* C5.  The compile error carries the 1-based position in the source of    *)
(* the first malformed line, comment lines and blank lines before it       *)
(* counted; no line after it is read or compiled.                          *)
(***************************************************************************)
C5_ErrorLineNumber ==
    /\ (ParseReturned /\ IsError(ret.err, ErrInvalidRegex)) =>
          /\ HasMalformed(lines)
          /\ ret.err.line = FirstMalformed(lines)
          /\ lineNumber = FirstMalformed(lines)
          /\ Len(patterns) = RulesBefore(lines, FirstMalformed(lines))
    /\ (pc = "failed" /\ IsError(err, ErrInvalidRegex)) =>
          err.line = FirstMalformed(lines)

\* The first malformed line is the third one, after a comment and a blank
\* line, and the error names line 3.
C5_Witness ==
    /\ ParseReturned /\ IsError(ret.err, ErrInvalidRegex)
    /\ Len(lines) = 3
    /\ IsComment(lines[1]) /\ lines[2] = << " " >> /\ Malformed(lines[3])
    /\ ret.err.line = 3

(***************************************************************************)
(* C6.  A source that fails while it is read.                              *)
(***************************************************************************)
IsScanError(e) ==
    /\ IsError(e, ErrScanningFile) /\ IsError(e, ReadError)
    /\ ~IsError(e, ErrInvalidRegex) /\ ~IsError(e, ErrRegexCompile)

AnywhereLine(X) == << "*", "*", "/" >> \o X
RootedAnywhereLine(X) == << "/", "*", "*", "/" >> \o X

C7_LeadingDoubleStar ==
    \A X \in Names \cup {foo} :
        (Built /\ lines \in { << AnywhereLine(X) >>, << RootedAnywhereLine(X) >> }) =>
            /\ Len(Rules) = 1
            /\ ~Rules[1].Negate
            /\ Rules[1].Regex = LineRegex(AnywhereLine(X)).re
            /\ Rules[1].Regex = LineRegex(RootedAnywhereLine(X)).re
            /\ Returned => (Verdict <=> HasSegment(path, X))

\* "/**/foo" accepted "/foo": depth zero, with a leading slash.
C7_Witness ==
    /\ Returned /\ Verdict
    /\ lines = << RootedAnywhereLine(foo) >>
    /\ path = << "/" >> \o foo

(***************************************************************************)
(* C8.  Trailing-slash directory rule: for a literal name d the rule "d/"  *)
(* accepts a path exactly when d is a whole segment of it that a "/"       *)
(* follows ("foo/", "foo/bar"); it rejects "foo" and every path whose only *)
(* segment d is the last one.                                              *)
(***************************************************************************)
DirLine(X) == X \o << "/" >>

C8_DirectoryRule ==
    \A X \in Names \cup {foo} :
        (Returned /\ lines = << DirLine(X) >>) =>
            (Verdict <=> HasSegmentBeforeSlash(path, X))

\* "foo/" accepted "foo/bar".
C8_Witness ==
    /\ Returned /\ Verdict
    /\ lines = << DirLine(foo) >>
    /\ path = foo \o << "/", "b", "a", "r" >>

(***************************************************************************)
(* C9.  A line whose first character is "#" gives no rule: the rule set    *)
(* built from it alone is empty and Match is false for every path, the     *)
(* path equal to the line included.  A line that starts with "\#" or "\!"  *)
(* gives one positive rule, which accepts the path that starts with that   *)
(* character ("\#abc" accepts "#abc", "\!abc" accepts "!abc").             *)
(***************************************************************************)
EscapedLine(c, X) == << "\\", c >> \o X

C9_CommentAndEscape ==
    /\ (Built /\ Len(lines) = 1 /\ HasPrefix(lines[1], << "#" >>)) =>
            (Rules = << >> /\ (Returned => ~Verdict))
    /\ \A c \in { "#", "!" } : \A X \in Names \cup {abc} :
          (Built /\ lines = << EscapedLine(c, X) >>) =>
              /\ Len(Rules) = 1
              /\ ~Rules[1].Negate
              /\ (Returned /\ path = << c >> \o X) => Verdict

\* "\#abc" accepted "#abc".
C9_Witness ==
    /\ Returned /\ Verdict
    /\ lines = << EscapedLine("#", abc) >>
    /\ path = << "#" >> \o abc

(***************************************************************************)
(* C10.  After the "!" of a negation is cut, a "#" or "!" that now leads   *)
(* the pattern is a literal character of it: "!#foo" is a negation rule    *)
(* that accepts "#foo", "!!foo" one that accepts "!foo", and the rules     *)
(* "\#foo", "!#foo" give false on "#foo".                                  *)
(***************************************************************************)
NegatedLine(c, X) == << "!", c >> \o X

C10_LiteralAfterNegation ==
    /\ \A c \in { "#", "!" } : \A X \in Names \cup {foo} :
          (Built /\ lines = << NegatedLine(c, X) >>) =>
              /\ Len(Rules) = 1
              /\ Rules[1].Negate
              /\ MatchString(Rules[1].Regex, << c >> \o X)
    /\ (Returned /\ lines = << EscapedLine("#", foo), NegatedLine("#", foo) >>
                 /\ path = << "#" >> \o foo) => ~Verdict

(***************************************************************************)
(* C11.  A "?" in a pattern is a literal question mark, never a wildcard   *)
(* for one character: a rule that is a name with a "?" in it accepts       *)
(* exactly the paths in which that text, "?" included, stands from one     *)
(* segment boundary to another ("file?.txt" accepts "file?.txt" and        *)
(* rejects "fileA.txt" and "file.txt").                                    *)
(***************************************************************************)
C11_LiteralQuestionMark ==
    (Returned /\ Len(lines) = 1 /\ lines[1] \in QuestionLines) =>
        (Verdict <=> StandsAtBoundaries(path, lines[1]))

\* "file?.txt" accepted the path "file?.txt".
C11_Witness ==
    /\ Returned /\ Verdict
    /\ lines = << fileQ >>
    /\ path = fileQ

C13_SharedRulesUnchanged ==
    /\ [][pc = "ready" => file' = file]_vars
    /\ [](\A g \in Goroutines :
             readers[g].pc = "done" =>
                 ((readers[g].result = "true")
                      <=> MatchAlone(CompiledRules(lines), readers[g].path)))

\* Two calls are under way at once on a set of two rules: one has returned
\* true while the other, on another path, is in the middle of its loop.
C13_Witness ==
    /\ Len(file.patterns) >= 2
    /\ readers["g1"].pc = "done" /\ readers["g1"].result = "true"
    /\ readers["g2"].pc = "match" /\ readers["g2"].idx = 1
    /\ readers["g2"].path # readers["g1"].path

(***************************************************************************)
(* C14.  On success the rule set holds exactly one compiled rule for each  *)
(* line of the source that is neither a comment (first character "#") nor  *)
(* empty after trimming, and none for the other lines: the k-th rule is    *)
(* the compiled form of the k-th such line, with a matcher, so the rules   *)
(* stand in the order of their lines.  Three patterns give 3 rules, a      *)
(* pattern between two comments or between blank lines 1, no input 0.      *)
(***************************************************************************)
C14_OneRulePerLine ==
    pc = "ready" =>
        /\ Len(Rules) = Cardinality({ i \in 1 .. Len(lines) :
                                         /\ ~IsComment(StripCR(lines[i]))
                                         /\ TrimSpaces(StripCR(lines[i])) # <<>> })
        /\ \A k \in 1 .. Len(Rules) :
              /\ LineRegex(lines[KeptLine(lines, k)]).ok
              /\ Rules[k].Regex = LineRegex(lines[KeptLine(lines, k)]).re
              /\ Rules[k].Negate = LineNegate(lines[KeptLine(lines, k)])
              /\ \A j \in 1 .. (k - 1) : KeptLine(lines, j) < KeptLine(lines, k)
        /\ lines = ThreePatterns => Len(Rules) = 3
        /\ lines \in { BetweenComments, BetweenBlanks } => Len(Rules) = 1
        /\ lines = <<>> => Len(Rules) = 0

\* The pattern between two comments was compiled to the one rule of the set,
\* which accepts "important.log".
C14_Witness ==
    /\ pc = "ready"
    /\ lines = BetweenComments
    /\ Len(Rules) = 1
    /\ MatchString(Rules[1].Regex, << "i", "m", "p", "o", "r", "t", "a", "n", "t", ".", "l", "o", "g" >>)

(***************************************************************************)
(* C15.  Match never fails.  On every rule set a constructor returned, the *)
(* empty one included, and every path, the empty one included, a Match     *)
(* call that has started returns; until then each turn of its loop looks   *)
(* at the rule after the one looked at before, so no rule is examined      *)
(* twice and none out of order; what it returns is true or false, and      *)
(* false when no rule accepts the path.                                    *)
(***************************************************************************)
C15_MatchNeverFails ==
    /\ [](pc \in { "match", "done" } => idx \in 0 .. Len(Rules))
    /\ [][pc = "match" =>
            \/ pc' = "match" /\ idx' = idx + 1 /\ result' = NoResult
            \/ pc' = "done" /\ idx' \in { idx, idx + 1 } /\ result' \in { "true", "false" }]_vars
    /\ []((Returned /\ \A i \in 1 .. Len(Rules) : ~Accepts(i)) => result = "false")
    /\ (pc = "match") ~> Returned

\* Match looked at each of two or more rules, none accepted the path, and
\* it returned false.
C15_Witness ==
    /\ Returned /\ result = "false"
    /\ Len(Rules) >= 2
    /\ idx = Len(Rules)
    /\ \A i \in 1 .. Len(Rules) : ~Accepts(i)

(***************************************************************************)
(* C16.  Implicit anchoring: a pattern that does not start with "/" and    *)
(* has a "/" and, somewhere after it, a segment of the form "*.ext" is     *)
(* compiled exactly as the same pattern with "/" before it, and so gives   *)
(* the verdicts of the rooted pattern on every path: "foo/*.txt" accepts   *)
(* "foo/a.txt" and rejects "x/foo/a.txt", and "foo/**/*.bar" rejects       *)
(* "abc.bar" and "foo/".                                                   *)
(***************************************************************************)
\* line[j] opens a segment of the form "*.ext".
OpensStarExt(line, j) ==
    /\ j + 2 <= Len(line)
    /\ line[j - 1] = "/" /\ line[j] = "*" /\ line[j + 1] = "." /\ line[j + 2] # "/"

HasSlashThenStarExt(line) ==
    /\ line # <<>> /\ line[1] # "/"
    /\ \E i \in 1 .. Len(line) : \E j \in (i + 1) .. Len(line) :
          line[i] = "/" /\ OpensStarExt(line, j)

C16_ImplicitAnchoring ==
    /\ \A l \in { x \in StepLines : HasSlashThenStarExt(x) } :
          (Built /\ lines = << l >>) =>
              /\ Len(Rules) = 1
              /\ Rules[1].Regex = LineRegex(Rooted(l)).re
              /\ Returned => (Verdict <=> MatchString(LineRegex(Rooted(l)).re, path))
    /\ (Returned /\ lines = << fooStarTxt >>) =>
          /\ path = << "f", "o", "o", "/", "a", ".", "t", "x", "t" >> => Verdict
          /\ path = << "x", "/", "f", "o", "o", "/", "a", ".", "t", "x", "t" >> => ~Verdict
    /\ (Returned /\ lines = << fooDeepBar >>) =>
          /\ path = << "a", "b", "c", ".", "b", "a", "r" >> => ~Verdict
          /\ path = << "f", "o", "o", "/" >> => ~Verdict

(***************************************************************************)
(* C17.  Root anchoring.  A pattern that starts with "/" is matched only   *)
(* from the beginning of the path, where the path may have one leading     *)
(* slash more: "/.js" accepts ".js", ".js/a" and "/.js" and rejects        *)
(* "x/.js" and ".jsa".  A pattern that does not start with "/" (and is not *)
(* implicitly anchored) is matched from any segment boundary of the path   *)
(* and only from there: ".js*" accepts ".jsa" and "/.js" and rejects       *)
(* "a.js/a"; "foo" accepts "x/foo" and rejects "xfoo".                     *)
(***************************************************************************)
\* p stands at the start of s, or after the one leading slash of s, and the
\* end of s or a "/" follows it.
StandsAtStart(s, p) ==
    \E u \in {s} \cup (IF HasPrefix(s, << "/" >>) THEN { Tail(s) } ELSE {}) :
        u = p \/ HasPrefix(u, p \o << "/" >>)

C17_RootAnchoring ==
    /\ \A X \in Names \cup { foo, dotjs } :
          /\ (Returned /\ lines = << Rooted(X) >>) => (Verdict <=> StandsAtStart(path, X))
          /\ (Returned /\ lines = << X >>) => (Verdict <=> StandsAtBoundaries(path, X))
    /\ (Returned /\ lines = << Rooted(dotjs) >>) =>
          /\ path \in { << ".", "j", "s" >>, << ".", "j", "s", "/", "a" >>, << "/", ".", "j", "s" >> } => Verdict
          /\ path \in { << "x", "/", ".", "j", "s" >>, << ".", "j", "s", "a" >> } => ~Verdict
    /\ (Returned /\ lines = << dotjsStar >>) =>
          /\ path \in { << ".", "j", "s", "a" >>, << "/", ".", "j", "s" >> } => Verdict
          /\ path = << "a", ".", "j", "s", "/", "a" >> => ~Verdict
    /\ (Returned /\ lines = << foo >>) =>
          /\ path = << "x", "/", "f", "o", "o" >> => Verdict
          /\ path = << "x", "f", "o", "o" >> => ~Verdict

\* "/.js" rejected "x/.js": the name stands at a segment boundary that is
\* not the beginning of the path.
C17_Witness ==
    /\ Returned /\ ~Verdict
    /\ lines = << Rooted(dotjs) >>
    /\ path = << "x", "/", ".", "j", "s" >>

(***************************************************************************)
(* C18.  Single star.  An unescaped "*" stands for any run of characters,  *)
(* the empty one included, that has no "/" in it, so it never spans two    *)
(* segments: a rule A*B of two literal parts accepts exactly the paths     *)
(* with a segment that starts with A, ends with B and is long enough for   *)
(* both ("*.js" accepts ".js" and "a.js"; "important/*.txt" does not       *)
(* accept "important/temp/data.txt").  An escaped star stands for the      *)
(* asterisk itself: a rule A\*B accepts exactly the paths in which the     *)
(* text A*B stands from one segment boundary to another.                   *)
(***************************************************************************)
\* A segment of s starts with A, ends with B and has room for both.
HasSegmentLike(s, A, B) ==
    \E i \in 1 .. Len(Segments(s)) :
        /\ Len(Segments(s)[i]) >= Len(A) + Len(B)
        /\ HasPrefix(Segments(s)[i], A)
        /\ HasSuffix(Segments(s)[i], B)

C18_SingleStar ==
    /\ \A A \in StarParts : \A B \in StarParts :
          /\ (Returned /\ lines = << StarLine(A, B) >>) =>
                (Verdict <=> HasSegmentLike(path, A, B))
          /\ (Returned /\ lines = << EscapedStarLine(A, B) >>) =>
                (Verdict <=> StandsAtBoundaries(path, StarLine(A, B)))
    /\ (Returned /\ lines = << starDotJs >>) =>
          (Verdict <=> HasSegmentLike(path, <<>>, dotjs))
    /\ (Returned /\ lines = << importantStarTxt >>
                 /\ path = << "i", "m", "p", "o", "r", "t", "a", "n", "t", "/", "t", "e", "m", "p", "/", "d", "a", "t", "a", ".", "t", "x", "t" >>) => ~Verdict

\* "f*f" rejected "f/f": the star did not take the slash.
C18_Witness ==
    /\ Returned /\ ~Verdict
    /\ lines = << StarLine(<< "f" >>, << "f" >>) >>
    /\ path = << "f", "/", "f" >>

(***************************************************************************)
(* C19.  Inner double-star.  In a pattern X/**/Y of two names the "/**/"   *)
(* stands for the slashes around zero or more whole segments between X and *)
(* Y: the rule accepts exactly the paths that have a segment X and, after  *)
(* it, a segment Y, with nothing or some text between the slash after X    *)
(* and the slash before Y (X/Y, X/a/Y, X/a/b/Y; not XY, and not X//Y,      *)
(* where the text between the two slashes is empty).  "foo/**/" accepts    *)
(* "foo/", "foo/abc/" and "foo/x/y/z/" and rejects "foo" and "/foo";       *)
(* "foo/**/*.bar" accepts "foo/abc.bar" and "foo/x/y/z.bar".               *)
(***************************************************************************)
\* Segment i of s is X, a later segment j is Y, and what stands between
\* them is not one empty segment alone.
HasSegmentsApart(s, X, Y) ==
    \E i \in 1 .. Len(Segments(s)) : \E j \in (i + 1) .. Len(Segments(s)) :
        /\ Segments(s)[i] = X
        /\ Segments(s)[j] = Y
        /\ ~(j = i + 2 /\ Segments(s)[i + 1] = <<>>)

C19_InnerDoubleStar ==
    /\ \A X \in InnerNames : \A Y \in InnerNames :
          (Returned /\ lines = << InnerLine(X, Y) >>) =>
              (Verdict <=> HasSegmentsApart(path, X, Y))
    /\ (Returned /\ lines = << fooDeepDir >>) =>
          /\ path \in { << "f", "o", "o", "/" >>, << "f", "o", "o", "/", "a", "b", "c", "/" >>, << "f", "o", "o", "/", "x", "/", "y", "/", "z", "/" >> } => Verdict
          /\ path \in { << "f", "o", "o" >>, << "/", "f", "o", "o" >> } => ~Verdict
    /\ (Returned /\ lines = << fooDeepBar >>) =>
          /\ path \in { << "f", "o", "o", "/", "a", "b", "c", ".", "b", "a", "r" >>, << "f", "o", "o", "/", "x", "/", "y", "/", "z", ".", "b", "a", "r" >> } => Verdict

\* "f/**/o" accepted "f/f/f/o": two segments stand between the names.
C19_Witness ==
    /\ Returned /\ Verdict
    /\ lines = << InnerLine(<< "f" >>, << "o" >>) >>
    /\ path = << "f", "/", "f", "/", "f", "/", "o" >>

(***************************************************************************)
(* C20.  Trailing double-star.  A rule X/** of a name X accepts the path X *)
(* itself and every path below it (X/a, X/a/b), and no path that has not X *)
(* as a whole segment: it accepts exactly the paths with a segment X.      *)
(* With the rules "**/logs/**", "!**/logs/keep/**" Match gives false on    *)
(* "server/logs/keep/debug.log" and true on "server/logs/other/debug.log". *)
(***************************************************************************)
C20_TrailingDoubleStar ==
    /\ \A X \in Names \cup { foo } :
          (Returned /\ lines = << BelowLine(X) >>) =>
              /\ Verdict <=> HasSegment(path, X)
              /\ (path = X \/ HasPrefix(path, X \o << "/" >>)) => Verdict
    /\ (Returned /\ lines = LogsRules) =>
          /\ path = keepDebugLog => ~Verdict
          /\ path = otherDebugLog => Verdict

\* Both rules accepted "server/logs/keep/debug.log", and Match gave false.
C20_Witness ==
    /\ Returned /\ ~Verdict
    /\ lines = LogsRules
    /\ path = keepDebugLog
    /\ Accepts(1) /\ Accepts(2)

(***************************************************************************)
(* C21.  Trimming.                                                         *)
(***************************************************************************)
OnlySpacesAndCRs(line) == \A i \in 1 .. Len(line) : line[i] \in { " ", "\r" }
SpacesThenCRs(line) ==
    /\ OnlySpacesAndCRs(line)
    /\ \A i \in 1 .. Len(line) : \A j \in (i + 1) .. Len(line) :
          line[i] = "\r" => line[j] = "\r"

\* For a pattern text P that does not begin with "#", the line P with
\* spaces before and after it and the line P with carriage returns after
\* it give the rule of the line P: the same negate flag, the same matcher,
\* the same verdict on every path.
SameRuleWhenPadded ==
    \A P \in TrimPatterns : \A l \in Padded(P) :
        (Built /\ lines = << l >>) =>
            /\ Len(Rules) = 1
            /\ Rules[1].Negate = LineNegate(P)
            /\ Rules[1].Regex = LineRegex(P).re
            /\ Returned => (Verdict <=> MatchAlone(CompiledRules(<< P >>), path))

\* As claimed: the above, and every line that is empty or made of spaces
\* and carriage returns only gives no rule.
C21_AsClaimed ==
    /\ SameRuleWhenPadded
    /\ (Built /\ Len(lines) = 1 /\ OnlySpacesAndCRs(lines[1])) => Rules = <<>>

\* As the code has it: the above, and every line that is empty or made of
\* spaces followed by carriage returns gives no rule.  (The carriage
\* returns at the end of the line are cut before the spaces are; a
\* carriage return that a space follows is not at the end and stays, so
\* the line of a carriage return and a space gives a rule.)
C21_Trimming ==
    /\ SameRuleWhenPadded
    /\ (Built /\ Len(lines) = 1 /\ SpacesThenCRs(lines[1])) => Rules = <<>>
    /\ (Built /\ Len(lines) = 1 /\ OnlySpacesAndCRs(lines[1]) /\ ~SpacesThenCRs(lines[1])) =>
          Len(Rules) = 1

\* The line " *.f \r" gave the rule of "*.f", which accepted "o.f".
C21_Witness ==
    /\ Returned /\ Verdict
    /\ lines = << << " ", "*", ".", "f", " ", "\r" >> >>
    /\ path = << "o", ".", "f" >>

(***************************************************************************)
(* C22.  The verdict of Match does not depend on the order of the rules.   *)
(* Match returns true exactly when some positive rule accepts the path and *)
(* no negation rule accepts it; so for every list of lines that compiles   *)
(* and every permutation of it, the rule set compiled from the permuted    *)
(* list gives on every path the verdict the rule set of the list gives.    *)
(***************************************************************************)
Permuted(ls, f) == [i \in 1 .. Len(ls) |-> ls[f[i]]]

C22_OrderIndependent ==
    Returned =>
        /\ Verdict <=> (PositiveAccepts /\ ~NegationAccepts)
        /\ Len(lines) >= 2 =>
              \A f \in Permutations(1 .. Len(lines)) :
                  MatchAlone(CompiledRules(Permuted(lines, f)), path) <=> Verdict

\* The rules "!f", "*" on the path "f": the negation stands first, the
\* positive rule after it accepts the path too, and Match returned false,
\* as it does for "*", "!f".
C22_Witness ==
    /\ Returned /\ ~Verdict
    /\ lines = << << "!", "f" >>, << "*" >> >>
    /\ path = << "f" >>
    /\ Accepts(1) /\ Accepts(2)

====
